---- MODULE Spec2Model ----
(***************************************************************************)
(* The two glossary maintenance scripts of backend/scripts:                *)
(*   translate_remaining.py        (fill, scan, DeepL -> Claude -> English)*)
(*   translate_missing_glossary.py (scan, DeepL only, --dry-run)           *)
(* Each run is a sequential program; pc is its position in main().         *)
(* A string is the sequence of its Unicode code points, a row is the       *)
(* sequence of its cells (Python column c is element c + 1), the table     *)
(* data["values"] is a function from the row index 0 .. len - 1.           *)
(***************************************************************************)
EXTENDS Integers, Sequences, FiniteSets, TLC

\* ------------------------------------------------------------------ bounds
\* Number of data rows (rows of index >= 2) of the table.
NumRows == 3
\* Largest number of cells the Phase B scan may find in the tables drawn.
MaxFlagged == 3
\* DeepL batch size of translate_remaining.py. The source sets 30; the size is
\* scaled down so that NumRows rows are split over several batches.
BATCH_SIZE == 2
\* Claude batch size of translate_remaining.py (the literal 20), scaled alike.
CLAUDE_BATCH == 2
\* Largest --batch-size argument drawn for translate_missing_glossary.py.
MaxBatchArg == 2

\* ------------------------------------------------------- column constants
COL_KEY_NAME == 1
COL_KOREAN == 2
COL_ENGLISH == 3
COL_ZH_HANS == 4
COL_JAPANESE == 5
COL_SPANISH == 6
COL_ZH_HANT == 7

\* A column order that visits English after the columns that fall back to it.
TARGET_COLS_EnglishLast == <<COL_ZH_HANS, COL_JAPANESE, COL_SPANISH, COL_ZH_HANT, COL_ENGLISH>>
\* Keys of TARGET_COLS / DEEPL_LANG_MAP, in insertion (iteration) order.
TARGET_COLS == <<COL_ENGLISH, COL_ZH_HANS, COL_JAPANESE, COL_SPANISH, COL_ZH_HANT>>
\* The list [COL_ZH_HANS, COL_JAPANESE, COL_SPANISH, COL_ZH_HANT] of Phase A.
FILL_COLS == <<COL_ZH_HANS, COL_JAPANESE, COL_SPANISH, COL_ZH_HANT>>
\* First data row: range(2, len(values)).
FIRST_DATA_ROW == 2

Range(s) == {s[k] : k \in 1..Len(s)}
TargetSet == Range(TARGET_COLS)

\* ----------------------------------------------------------------- strings
\* Bounds of the character class [\uAC00-\uD7AF].
HANGUL_FIRST == 44032
HANGUL_LAST == 55215
\* Characters str.strip() removes (those used by the strings drawn here).
WhitespaceChars == {9, 10, 13, 32, 12288}

IsHangul(ch) == ch >= HANGUL_FIRST /\ ch <= HANGUL_LAST

\* has_korean(text): re.search(r'[\uAC00-\uD7AF]', text); False for "" .
has_korean(text) == \E k \in 1..Len(text) : IsHangul(text[k])

\* is_empty(text): not text or text.strip() == "".
is_empty_nostrip(text) == text = <<>>
is_empty(text) == \A k \in 1..Len(text) : text[k] \in WhitespaceChars

\* Python truthiness of a string: `if translated`, `if eng_val`.
Truthy(text) == text # <<>>

EMPTY == <<>>
SPACE == <<32>>
\* "a": text already in the target language.
EN == <<97>>
\* U+AC00: source-script text.
KO == <<44032>>
\* U+D7AF, the last code point of the class.
KO_LAST == <<55215>>
\* "a" followed by U+AC00: translated text with a Hangul remainder.
MIXED == <<97, 44032>>
\* U+ABFF and U+D7B0, the neighbours of the class, which it excludes.
ABOVE == <<55216>>
URL == <<117>>
KEY == <<107>>

\* ------------------------------------------------------------------ rows
\* row[col] for a column the row has.
Cell(row, col) == row[col + 1]
SetCell(row, col, text) == [row EXCEPT ![col + 1] = text]

\* eng_val = row[COL_ENGLISH] if len(row) > COL_ENGLISH else "".
EngVal(row) == IF Len(row) > COL_ENGLISH THEN Cell(row, COL_ENGLISH) ELSE EMPTY

\* while len(row) <= col_idx: row.append("").
Widen(row, col) == row \o [k \in 1..(col + 1 - Len(row)) |-> EMPTY]

\* One iteration of the inner loop of Phase A on column col, for a row whose
\* English value eng passed the is_empty test.
FillCell(row, col, eng) ==
  IF col < Len(row)
    THEN IF is_empty(Cell(row, col)) THEN SetCell(row, col, eng) ELSE row
    ELSE SetCell(Widen(row, col), col, eng)

\* empty_filled[col_idx] += 1 happens exactly when FillCell assigns.
FillCounts(row, col) == IF col < Len(row) THEN is_empty(Cell(row, col)) ELSE TRUE

RECURSIVE FillCols(_, _, _)
FillCols(row, cols, eng) ==
  IF cols = <<>> THEN row ELSE FillCols(FillCell(row, Head(cols), eng), Tail(cols), eng)

\* The body of the Phase A loop for one row.
FillRow(row) ==
  LET eng == EngVal(row) IN IF is_empty(eng) THEN row ELSE FillCols(row, FILL_COLS, eng)

NRows(table) == Cardinality(DOMAIN table)
DataRows(table) == {r \in DOMAIN table : r >= FIRST_DATA_ROW}

\* Phase A: the table after the fill loop.
Fill(table) == [r \in DOMAIN table |-> IF r \in DataRows(table) THEN FillRow(table[r]) ELSE table[r]]

\* Phase A: empty_filled after the fill loop. Column col of a row is counted
\* when the row is reached with that cell empty or absent; the earlier columns
\* of FILL_COLS have been filled by then, which never fills col itself.
FilledCount(table, col) ==
  Cardinality({r \in DataRows(table) :
                 /\ ~is_empty(EngVal(table[r]))
                 /\ FillCounts(table[r], col)})

\* ---------------------------------------------------------------- scanner
RECURSIVE RowSeqFrom(_, _)
RowSeqFrom(r, n) == IF r >= n THEN <<>> ELSE <<r>> \o RowSeqFrom(r + 1, n)
\* range(2, len(values)) as a sequence.
RowOrder(table) == RowSeqFrom(FIRST_DATA_ROW, NRows(table))

\* if col_idx < len(row) and has_korean(row[col_idx]).
NeedsTranslationOrEmpty(row, col) == col < Len(row) /\ (has_korean(Cell(row, col)) \/ is_empty(Cell(row, col)))
NeedsTranslation(row, col) == col < Len(row) /\ has_korean(Cell(row, col))

RECURSIVE ScanColumn(_, _, _)
ScanColumn(table, col, rows) ==
  IF rows = <<>> THEN <<>>
  ELSE LET r == Head(rows) IN
       (IF NeedsTranslation(table[r], col) THEN << <<r, Cell(table[r], col)>> >> ELSE <<>>)
         \o ScanColumn(table, col, Tail(rows))

\* Phase B of translate_remaining.py: missing[col] is the list of
\* (row_idx, text) in row order.
Scan(table) == [col \in TargetSet |-> ScanColumn(table, col, RowOrder(table))]

RECURSIVE SumLens(_, _)
SumLens(m, cols) == IF cols = <<>> THEN 0 ELSE Len(m[Head(cols)]) + SumLens(m, Tail(cols))
\* total_missing = sum(len(v) for v in missing.values()).
TotalMissing(m) == SumLens(m, TARGET_COLS)

\* ------------------------------------------------------- external services
\* result.text values the DeepL client may hand back for one text.
DeeplTexts == {EMPTY, <<100>>, <<100, 55215>>}

\* translator.translate_text(texts, ...) that returns: one result per text.
DeeplReplies(n) == [1..n -> DeeplTexts]

Digits == 48..57
RECURSIVE LStrip(_)
LStrip(s) == IF s # <<>> /\ Head(s) \in WhitespaceChars THEN LStrip(Tail(s)) ELSE s
RECURSIVE RStrip(_)
RStrip(s) ==
  IF s # <<>> /\ s[Len(s)] \in WhitespaceChars THEN RStrip(SubSeq(s, 1, Len(s) - 1)) ELSE s
\* str.strip().
Strip(s) == RStrip(LStrip(s))

RECURSIVE DropDigits(_)
DropDigits(s) == IF s # <<>> /\ Head(s) \in Digits THEN DropDigits(Tail(s)) ELSE s
\* re.sub(r'^\d+[\.\)]\s*', '', l).
StripNumbering(l) ==
  LET rest == DropDigits(l) IN
  IF Len(rest) < Len(l) /\ rest # <<>> /\ Head(rest) \in {46, 41}
    THEN LStrip(Tail(rest))
    ELSE l

RECURSIVE KeepLines(_)
\* [l.strip() for l in lines if l.strip()].
KeepLines(lines) ==
  IF lines = <<>> THEN <<>>
  ELSE (IF Strip(Head(lines)) # <<>> THEN <<Strip(Head(lines))>> ELSE <<>>) \o KeepLines(Tail(lines))

\* Lines of the text a Claude response may carry:
\* "1. c", "2) " + U+AC00 and the blank line " ".
ClaudeLines == {<<49, 46, 32, 99>>, <<50, 41, 32, 44032>>, <<32>>}

RECURSIVE SeqsUpTo(_, _)
SeqsUpTo(S, n) ==
  IF n = 0 THEN {<<>>}
  ELSE LET shorter == SeqsUpTo(S, n - 1) IN
       shorter \cup {Append(q, x) : q \in {t \in shorter : Len(t) = n - 1}, x \in S}

\* The HTTP responses claude_translate_batch may read for n texts: a status
\* and the lines of content[0].text (one more than asked for at most).
ClaudeResponses(n) ==
  [status : {200}, lines : SeqsUpTo(ClaudeLines, n + 1)] \cup [status : {529}, lines : {<<>>}]

\* claude_translate_batch(texts, ...) for a response that parses.
claude_translate_batch(texts, resp) ==
  IF texts = <<>> THEN <<>>
  ELSE IF resp.status # 200 THEN [k \in 1..Len(texts) |-> EMPTY]
  ELSE LET lines == KeepLines(resp.lines)
           results == [k \in 1..Len(lines) |-> StripNumbering(lines[k])]
           padded == IF Len(results) < Len(texts)
                       THEN results \o [k \in 1..(Len(texts) - Len(results)) |-> EMPTY]
                       ELSE results
       IN SubSeq(padded, 1, Len(texts))

\* ---------------------------------------------------------------- cascade
\* `if translated and not has_korean(translated)`, the acceptance test of the
\* DeepL and Claude steps of translate_remaining.py.
AcceptedNoScriptCheck(text) == Truthy(text)
Accepted(text) == Truthy(text) /\ ~has_korean(text)

\* entries[i:i + size].
Slice(entries, i, size) ==
  SubSeq(entries, i + 1, IF i + size < Len(entries) THEN i + size ELSE Len(entries))

\* For each result of a batch, whether it passed the acceptance test.
AcceptedFlags(results) == [k \in 1..Len(results) |-> Accepted(results[k])]

\* The (row, text) pairs of a batch whose result failed the test, in order;
\* oks[k] tells whether result k passed.
Rejected(batch, oks) ==
  LET idx == SelectSeq([k \in 1..Len(batch) |-> k], LAMBDA k : k <= Len(oks) /\ ~oks[k])
  IN [n \in 1..Len(idx) |-> batch[idx[n]]]

\* How many results of a batch are counted as resolved by the step.
NumAcceptedAll(oks) == Len(oks)
NumAccepted(oks) == Cardinality({k \in 1..Len(oks) : oks[k]})

\* The table after the results of a batch that passed the test are written
\* to column col: data["values"][row_indices[j]][col_idx] = translated.
WriteAccepted(table, col, batch, results, oks) ==
  [r \in DOMAIN table |->
     IF \E k \in 1..Len(batch) : batch[k][1] = r /\ k <= Len(results) /\ oks[k]
       THEN SetCell(table[r], col,
                    results[CHOOSE k \in 1..Len(batch) :
                              batch[k][1] = r /\ k <= Len(results) /\ oks[k]])
       ELSE table[r]]

\* except Exception: deepl_failed.extend(batch) / claude_failed.extend(batch).
ExceptExtendDrop(failed, batch) == failed
ExceptExtend(failed, batch) == failed \o batch

\* `if col_idx == COL_ENGLISH` of Step 3: the column cannot fall back to itself.
IsEnglishColumn(col) == col = COL_ENGLISH

\* `if eng_val and not has_korean(eng_val)` of Step 3.
FallbackUsableAny(eng) == Truthy(eng)
FallbackUsableNoEmptyCheck(eng) == ~has_korean(eng)
FallbackUsable(eng) == Truthy(eng) /\ ~has_korean(eng)

\* ------------------------------------------------------------------ state
VARIABLES
  script,         \* which script runs: "remaining" or "glossary"
  dry_run,        \* args.dry_run (glossary)
  batch_size,     \* BATCH_SIZE (remaining) or args.batch_size (glossary)
  pc,             \* position in main()
  file_exists,    \* whether sheet_db.json exists
  file0,          \* content of sheet_db.json when the run starts
  disk,           \* content of sheet_db.json now
  backups,        \* contents of the backup files created by this run
  writes,         \* number of times this run wrote sheet_db.json
  calls,          \* external-service calls made so far, by kind
  values,         \* data["values"], the in-memory table
  empty_filled,   \* Phase A counters
  missing,        \* Phase B result: column -> list of (row_idx, text)
  stats,          \* per column: deepl, claude, english_fallback, failed
  col_pos,        \* position in the iteration over the target columns
  i,              \* loop offset of the running batch / fallback loop
  deepl_failed,   \* entries the DeepL step did not resolve (remaining)
  claude_failed,  \* entries the Claude step did not resolve (remaining)
  trace,          \* per cell, the strategies applied to it in this run
  raised,         \* rows of the running column whose DeepL / Claude call raised
  g_missing,      \* glossary: list of (row_idx, [(col_idx, text)])
  lang_counts,    \* glossary: flagged entries per column
  g_stats,        \* glossary: translation_stats, per column success and failed
  batch_data,     \* glossary: (row_idx, text) of the running column
  failed_entries  \* glossary: list of (row_idx, col_idx, text)

vars == <<script, dry_run, batch_size, pc, file_exists, file0, disk, backups, writes,
          calls, values, empty_filled, missing, stats, col_pos, i, deepl_failed,
          claude_failed, trace, raised, g_missing, lang_counts, g_stats, batch_data,
          failed_entries>>

\* Variables of the translation loops.
loopVars == <<empty_filled, missing, stats, col_pos, i, deepl_failed, claude_failed,
              trace, raised, g_missing, lang_counts, g_stats, batch_data, failed_entries>>
fileVars == <<file_exists, file0, disk, backups, writes>>
runVars == <<script, dry_run, batch_size>>

\* ----------------------------------------------------------------- inputs
HEADER == <<URL, KEY, KO, EN, EMPTY, KO, EN, EN>>
PREFIX == <<URL, KEY, KO>>

\* Data rows the tables are built from (columns 3..7 after the prefix).
RowShapes ==
  { PREFIX \o <<EN, EN, EN, EN, EN>>,         \* complete
    PREFIX \o <<KO, EN, EN, EN, EN>>,         \* English untranslated
    PREFIX \o <<KO, EN, EN, EN>>,             \* short row, English untranslated
    PREFIX \o <<EMPTY, KO, EN, EN, EN>>,      \* no English, dependent untranslated
    PREFIX \o <<EN, EN, MIXED, EMPTY>>,       \* short row, empty cell, Hangul remainder
    PREFIX \o <<SPACE, EN, EN, EN, KO_LAST>> }\* blank English, dependent untranslated

TableOf(rows) == [r \in 0..(Len(rows) + 1) |-> IF r < FIRST_DATA_ROW THEN HEADER ELSE rows[r - 1]]

Tables ==
  {t \in {TableOf(rows) : rows \in [1..NumRows -> RowShapes]} :
     TotalMissing(Scan(Fill(t))) <= MaxFlagged}

Cells == (0..(NumRows + 1)) \X TargetSet
NoRaised == [deepl |-> {}, claude |-> {}]
NoStats == [col \in TargetSet |-> [deepl |-> 0, claude |-> 0, english_fallback |-> 0, failed |-> 0]]

Init ==
  /\ script \in {"remaining", "glossary"}
  /\ dry_run \in (IF script = "glossary" THEN BOOLEAN ELSE {FALSE})
  /\ batch_size \in (IF script = "glossary" THEN {1, MaxBatchArg} ELSE {BATCH_SIZE})
  /\ pc = "start"
  /\ file_exists \in BOOLEAN
  /\ file0 \in (IF file_exists THEN Tables ELSE {<<>>})
  /\ disk = file0
  /\ backups = <<>>
  /\ writes = 0
  /\ calls = {}
  /\ values = <<>>
  /\ empty_filled = [col \in Range(FILL_COLS) |-> 0]
  /\ missing = [col \in TargetSet |-> <<>>]
  /\ stats = NoStats
  /\ col_pos = 1
  /\ i = 0
  /\ deepl_failed = <<>>
  /\ claude_failed = <<>>
  /\ trace = [cell \in Cells |-> <<>>]
  /\ raised = NoRaised
  /\ g_missing = <<>>
  /\ lang_counts = [col \in TargetSet |-> 0]
  /\ g_stats = [col \in TargetSet |-> [success |-> 0, failed |-> 0]]
  /\ batch_data = <<>>
  /\ failed_entries = <<>>

\* ------------------------------------------- translate_remaining.py: main()
\* Lines 85-90: both credentials are required.
R_CheckKeys ==
  /\ script = "remaining" /\ pc = "start"
  /\ \E deepl_key \in BOOLEAN, claude_key \in BOOLEAN :
       pc' = IF deepl_key /\ claude_key THEN "connect" ELSE "exit1"
  /\ UNCHANGED <<runVars, fileVars, calls, values, loopVars>>

\* Lines 92-94: translator.get_usage(), outside any try.
R_Connect ==
  /\ script = "remaining" /\ pc = "connect"
  /\ calls' = calls \cup {"get_usage"}
  /\ \E ok \in BOOLEAN : pc' = IF ok THEN "load" ELSE "crashed"
  /\ UNCHANGED <<runVars, fileVars, values, loopVars>>

\* What follows the load: the backup of lines 101-104.
AfterLoadNoBackup == "phaseA"
AfterLoad == "backup"

\* Lines 96-99: open() raises when the file is missing.
R_Load ==
  /\ script = "remaining" /\ pc = "load"
  /\ IF file_exists
       THEN values' = disk /\ pc' = AfterLoad
       ELSE values' = values /\ pc' = "crashed"
  /\ UNCHANGED <<runVars, fileVars, calls, loopVars>>

\* Lines 101-104: shutil.copy2(data_path, backup_path).
R_Backup ==
  /\ script = "remaining" /\ pc = "backup"
  /\ backups' = Append(backups, disk)
  /\ pc' = "phaseA"
  /\ UNCHANGED <<runVars, file_exists, file0, disk, writes, calls, values, loopVars>>

\* Lines 108-130: Phase A.
R_PhaseA ==
  /\ script = "remaining" /\ pc = "phaseA"
  /\ values' = Fill(values)
  /\ empty_filled' = [col \in Range(FILL_COLS) |-> FilledCount(values, col)]
  /\ pc' = "phaseB"
  /\ UNCHANGED <<runVars, fileVars, calls, missing, stats, col_pos, i, deepl_failed,
                 claude_failed, trace, raised, g_missing, lang_counts, g_stats, batch_data,
                 failed_entries>>

\* The loop `for col_idx, info in TARGET_COLS.items()` skips the columns with
\* no entries (lines 156-159): the position of the next column with entries
\* at or after p, or one past the end.
NextPos(m, p) ==
  IF \E q \in p..Len(TARGET_COLS) : m[TARGET_COLS[q]] # <<>>
    THEN CHOOSE q \in p..Len(TARGET_COLS) :
           /\ m[TARGET_COLS[q]] # <<>>
           /\ \A q2 \in p..(q - 1) : m[TARGET_COLS[q2]] = <<>>
    ELSE Len(TARGET_COLS) + 1

\* Lines 156-166: go on with the next column that has entries (Step 1 starts
\* with deepl_failed = []), or leave the loop for the save.
EnterColumn(m, p) ==
  LET q == NextPos(m, p) IN
  /\ col_pos' = q
  /\ i' = 0
  /\ raised' = NoRaised
  /\ IF q > Len(TARGET_COLS)
       THEN pc' = "save" /\ UNCHANGED deepl_failed
       ELSE pc' = "deepl" /\ deepl_failed' = <<>>

\* Lines 132-154: Phase B and the total_missing test.
R_PhaseB ==
  /\ script = "remaining" /\ pc = "phaseB"
  /\ missing' = Scan(values)
  /\ stats' = NoStats
  /\ IF TotalMissing(Scan(values)) = 0
       THEN pc' = "earlysave" /\ UNCHANGED <<col_pos, i, deepl_failed, raised>>
       ELSE EnterColumn(Scan(values), 1)
  /\ UNCHANGED <<runVars, fileVars, calls, values, empty_filled, claude_failed, trace,
                 g_missing, lang_counts, g_stats, batch_data, failed_entries>>

\* Lines 147-151: nothing to translate, save the fills and return.
R_EarlySave ==
  /\ script = "remaining" /\ pc = "earlysave"
  /\ disk' = values
  /\ writes' = writes + 1
  /\ pc' = "done"
  /\ UNCHANGED <<runVars, file_exists, file0, backups, calls, values, loopVars>>

CurCol == TARGET_COLS[col_pos]

\* trace after the entries of `batch` in column col got events[k] each.
Logged(col, batch, events) ==
  [cell \in Cells |->
     IF cell[2] = col /\ \E k \in 1..Len(batch) : batch[k][1] = cell[1]
       THEN Append(trace[cell], events[CHOOSE k \in 1..Len(batch) : batch[k][1] = cell[1]])
       ELSE trace[cell]]

\* The end of the DeepL loop (line 193): Step 2 runs only `if deepl_failed`.
AfterDeepl(offset, failed, rs) ==
  IF offset < Len(missing[CurCol])
    THEN pc' = "deepl" /\ i' = offset /\ deepl_failed' = failed /\ raised' = rs
                       /\ UNCHANGED <<col_pos, claude_failed>>
    ELSE IF failed # <<>>
      THEN pc' = "claude" /\ i' = 0 /\ deepl_failed' = failed /\ claude_failed' = <<>>
                          /\ raised' = rs /\ UNCHANGED col_pos
      ELSE EnterColumn(missing, col_pos + 1) /\ UNCHANGED claude_failed

\* Lines 167-187: one DeepL batch whose call returns.
R_DeeplBatch ==
  /\ script = "remaining" /\ pc = "deepl"
  /\ LET batch == Slice(missing[CurCol], i, batch_size) IN
     \E results \in DeeplReplies(Len(batch)) :
       /\ calls' = calls \cup {"translate_text"}
       /\ values' = WriteAccepted(values, CurCol, batch, results, AcceptedFlags(results))
       /\ stats' = [stats EXCEPT ![CurCol].deepl = @ + NumAccepted(AcceptedFlags(results))]
       /\ trace' = Logged(CurCol, batch,
                          [k \in 1..Len(batch) |-> IF Accepted(results[k]) THEN "deepl_ok" ELSE "deepl_fail"])
       /\ AfterDeepl(i + batch_size, deepl_failed \o Rejected(batch, AcceptedFlags(results)),
                     raised)
  /\ UNCHANGED <<runVars, fileVars, empty_filled, missing, g_missing,
                 lang_counts, g_stats, batch_data, failed_entries>>

\* Lines 188-190: one DeepL batch whose call raises.
R_DeeplRaise ==
  /\ script = "remaining" /\ pc = "deepl"
  /\ LET batch == Slice(missing[CurCol], i, batch_size) IN
       /\ calls' = calls \cup {"translate_text"}
       /\ trace' = Logged(CurCol, batch, [k \in 1..Len(batch) |-> "deepl_fail"])
       /\ AfterDeepl(i + batch_size, ExceptExtend(deepl_failed, batch),
                     [raised EXCEPT !.deepl = @ \cup {batch[k][1] : k \in 1..Len(batch)}])
  /\ UNCHANGED <<runVars, fileVars, values, empty_filled, missing, stats, g_missing,
                 lang_counts, g_stats, batch_data, failed_entries>>

\* The list Step 2 iterates over (line 196).
ClaudeInputAll == missing[CurCol]
ClaudeInput == deepl_failed

\* The end of the Claude loop (line 220): Step 3 runs only `if claude_failed`.
AfterClaude(offset, failed, rs) ==
  IF offset < Len(ClaudeInput)
    THEN pc' = "claude" /\ i' = offset /\ raised' = rs /\ UNCHANGED <<col_pos, deepl_failed>>
    ELSE IF failed # <<>>
      THEN pc' = "fallback" /\ i' = 0 /\ raised' = rs /\ UNCHANGED <<col_pos, deepl_failed>>
      ELSE EnterColumn(missing, col_pos + 1)

\* Lines 196-213, 217: one Claude batch whose call returns a parsed list.
R_ClaudeBatch ==
  /\ script = "remaining" /\ pc = "claude"
  /\ LET batch == Slice(ClaudeInput, i, CLAUDE_BATCH)
         texts == [k \in 1..Len(batch) |-> batch[k][2]]
     IN
     \E resp \in ClaudeResponses(Len(batch)) :
       LET translations == claude_translate_batch(texts, resp) IN
       /\ calls' = calls \cup {"claude"}
       /\ values' = WriteAccepted(values, CurCol, batch, translations, AcceptedFlags(translations))
       /\ stats' = [stats EXCEPT ![CurCol].claude = @ + NumAccepted(AcceptedFlags(translations))]
       /\ claude_failed' = claude_failed \o Rejected(batch, AcceptedFlags(translations))
       /\ trace' = Logged(CurCol, batch,
                          [k \in 1..Len(batch) |-> IF Accepted(translations[k]) THEN "claude_ok"
                                                                  ELSE "claude_fail"])
       /\ AfterClaude(i + CLAUDE_BATCH, claude_failed', raised)
  /\ UNCHANGED <<runVars, fileVars, empty_filled, missing, g_missing,
                 lang_counts, g_stats, batch_data, failed_entries>>

\* Lines 214-217: one Claude batch whose call (connection, JSON, parsing) raises.
R_ClaudeRaise ==
  /\ script = "remaining" /\ pc = "claude"
  /\ LET batch == Slice(ClaudeInput, i, CLAUDE_BATCH) IN
       /\ calls' = calls \cup {"claude"}
       /\ claude_failed' = ExceptExtend(claude_failed, batch)
       /\ trace' = Logged(CurCol, batch, [k \in 1..Len(batch) |-> "claude_fail"])
       /\ AfterClaude(i + CLAUDE_BATCH, claude_failed',
                      [raised EXCEPT !.claude = @ \cup {batch[k][1] : k \in 1..Len(batch)}])
  /\ UNCHANGED <<runVars, fileVars, values, empty_filled, missing, stats,
                 g_missing, lang_counts, g_stats, batch_data, failed_entries>>

\* Lines 222-237: one iteration of the English fallback loop.
R_EnglishFallback ==
  /\ script = "remaining" /\ pc = "fallback"
  /\ LET entry == claude_failed[i + 1]
         row_idx == entry[1]
         row == values[row_idx]
         eng_val == EngVal(row)
         copies == ~IsEnglishColumn(CurCol) /\ FallbackUsable(eng_val)
     IN
       /\ values' = IF copies
                      THEN [values EXCEPT ![row_idx] = SetCell(row, CurCol, eng_val)]
                      ELSE values
       /\ stats' = IF copies
                     THEN [stats EXCEPT ![CurCol].english_fallback = @ + 1]
                     ELSE [stats EXCEPT ![CurCol].failed = @ + 1]
       /\ trace' = [trace EXCEPT ![<<row_idx, CurCol>>] =
                      Append(@, IF copies THEN "fallback_ok" ELSE "failed")]
  /\ IF i + 1 < Len(claude_failed)
       THEN pc' = "fallback" /\ i' = i + 1 /\ UNCHANGED <<col_pos, deepl_failed, raised>>
       ELSE EnterColumn(missing, col_pos + 1)
  /\ UNCHANGED <<runVars, fileVars, calls, empty_filled, missing, claude_failed,
                 g_missing, lang_counts, g_stats, batch_data, failed_entries>>

\* Lines 239-271: json.dump of the table to sheet_db.json, then the summary,
\* which only prints.
R_Save ==
  /\ script = "remaining" /\ pc = "save"
  /\ disk' = values
  /\ writes' = writes + 1
  /\ pc' = "done"
  /\ UNCHANGED <<runVars, file_exists, file0, backups, calls, values, loopVars>>

RemainingNext ==
  \/ R_CheckKeys \/ R_Connect \/ R_Load \/ R_Backup \/ R_PhaseA \/ R_PhaseB
  \/ R_EarlySave \/ R_DeeplBatch \/ R_DeeplRaise
  \/ R_ClaudeBatch \/ R_ClaudeRaise \/ R_EnglishFallback \/ R_Save

\* ------------------------------------ translate_missing_glossary.py: main()
RECURSIVE RowMissingFrom(_, _)
\* The inner loop of find_missing_translations over DEEPL_LANG_MAP.keys().
RowMissingFrom(row, cols) ==
  IF cols = <<>> THEN <<>>
  ELSE (IF NeedsTranslation(row, Head(cols))
          THEN << <<Head(cols), Cell(row, Head(cols))>> >> ELSE <<>>)
         \o RowMissingFrom(row, Tail(cols))

RECURSIVE FindMissingFrom(_, _)
FindMissingFrom(table, rows) ==
  IF rows = <<>> THEN <<>>
  ELSE LET row_missing == RowMissingFrom(table[Head(rows)], TARGET_COLS) IN
       (IF row_missing # <<>> THEN << <<Head(rows), row_missing>> >> ELSE <<>>)
         \o FindMissingFrom(table, Tail(rows))

\* find_missing_translations(data): the dict row_idx -> [(col_idx, text)], as
\* the list of its items in insertion order.
find_missing_translations(table) == FindMissingFrom(table, RowOrder(table))

RECURSIVE PairsOfColumn(_, _, _)
PairsOfColumn(row_idx, row_missing, col) ==
  IF row_missing = <<>> THEN <<>>
  ELSE (IF Head(row_missing)[1] = col THEN << <<row_idx, Head(row_missing)[2]>> >> ELSE <<>>)
         \o PairsOfColumn(row_idx, Tail(row_missing), col)

RECURSIVE BatchData(_, _)
\* Lines 231-235: the (row_idx, text) pairs of column col.
BatchData(m, col) ==
  IF m = <<>> THEN <<>>
  ELSE PairsOfColumn(Head(m)[1], Head(m)[2], col) \o BatchData(Tail(m), col)

\* Lines 191-194.
LangCounts(m) == [col \in TargetSet |-> Len(BatchData(m, col))]

\* `if translation:` (line 250), the acceptance test of the glossary script.
G_Accepted(text) == Truthy(text)
G_AcceptedFlags(results) == [k \in 1..Len(results) |-> G_Accepted(results[k])]

\* `if args.dry_run:` (line 202): the run returns before the backup.
DryRunIgnored(flag) == FALSE
DryRunReturns(flag) == flag

\* Lines 148-153.
G_CheckKey ==
  /\ script = "glossary" /\ pc = "start"
  /\ \E api_key \in BOOLEAN : pc' = IF api_key THEN "connect" ELSE "exit1"
  /\ UNCHANGED <<runVars, fileVars, calls, values, loopVars>>

\* Lines 155-165: deepl.Translator(api_key).get_usage(), whatever the flags; a
\* failure is caught and ends the run with sys.exit(1).
G_Connect ==
  /\ script = "glossary" /\ pc = "connect"
  /\ calls' = calls \cup {"get_usage"}
  /\ \E ok \in BOOLEAN : pc' = IF ok THEN "load" ELSE "exit1"
  /\ UNCHANGED <<runVars, fileVars, values, loopVars>>

\* Lines 167-180.
G_Load ==
  /\ script = "glossary" /\ pc = "load"
  /\ IF file_exists
       THEN values' = disk /\ pc' = "scan"
       ELSE values' = values /\ pc' = "exit1"
  /\ UNCHANGED <<runVars, fileVars, calls, loopVars>>

\* Lines 182-213: the scan, the counts, and the dry-run report.
G_Scan ==
  /\ script = "glossary" /\ pc = "scan"
  /\ g_missing' = find_missing_translations(values)
  /\ IF g_missing' = <<>>
       THEN pc' = "done" /\ UNCHANGED lang_counts
       ELSE /\ lang_counts' = LangCounts(g_missing')
            /\ pc' = IF DryRunReturns(dry_run) THEN "done" ELSE "backup"
  /\ UNCHANGED <<runVars, fileVars, calls, values, empty_filled, missing, stats, col_pos,
                 i, deepl_failed, claude_failed, trace, raised, g_stats, batch_data,
                 failed_entries>>

\* Position of the next column with lang_counts > 0 at or after p (line 225).
G_NextPos(p) ==
  IF \E q \in p..Len(TARGET_COLS) : lang_counts[TARGET_COLS[q]] # 0
    THEN CHOOSE q \in p..Len(TARGET_COLS) :
           /\ lang_counts[TARGET_COLS[q]] # 0
           /\ \A q2 \in p..(q - 1) : lang_counts[TARGET_COLS[q2]] = 0
    ELSE Len(TARGET_COLS) + 1

\* Lines 224-235: go on with the next column that has entries, or save.
G_EnterColumn(p) ==
  LET q == G_NextPos(p) IN
  /\ col_pos' = q
  /\ i' = 0
  /\ IF q > Len(TARGET_COLS)
       THEN pc' = "save" /\ UNCHANGED batch_data
       ELSE pc' = "batch" /\ batch_data' = BatchData(g_missing, TARGET_COLS[q])

\* Lines 215-222: create_backup, then the loop starts.
G_Backup ==
  /\ script = "glossary" /\ pc = "backup"
  /\ backups' = Append(backups, disk)
  /\ g_stats' = [col \in TargetSet |-> [success |-> 0, failed |-> 0]]
  /\ failed_entries' = <<>>
  /\ G_EnterColumn(1)
  /\ UNCHANGED <<runVars, file_exists, file0, disk, writes, calls, values, empty_filled,
                 missing, stats, deepl_failed, claude_failed, trace, raised, g_missing,
                 lang_counts>>

\* Lines 238-257 for the list translate_batch hands back.
G_Apply(batch, translations, fail_event) ==
  LET rejected == Rejected(batch, G_AcceptedFlags(translations)) IN
  /\ values' = WriteAccepted(values, CurCol, batch, translations, G_AcceptedFlags(translations))
  /\ g_stats' = [g_stats EXCEPT ![CurCol].success = @ + NumAccepted(G_AcceptedFlags(translations)),
                                ![CurCol].failed = @ + Len(rejected)]
  /\ failed_entries' = failed_entries \o
                         [k \in 1..Len(rejected) |-> <<rejected[k][1], CurCol, rejected[k][2]>>]
  /\ trace' = Logged(CurCol, batch,
                     [k \in 1..Len(batch) |-> IF G_Accepted(translations[k]) THEN "success" ELSE fail_event])
  /\ IF i + batch_size < Len(batch_data)
       THEN pc' = "batch" /\ i' = i + batch_size /\ UNCHANGED <<col_pos, batch_data>>
       ELSE G_EnterColumn(col_pos + 1)

\* One batch whose translate_text call returns (translate_batch, lines 126-136).
G_Batch ==
  /\ script = "glossary" /\ pc = "batch"
  /\ LET batch == Slice(batch_data, i, batch_size) IN
     \E results \in DeeplReplies(Len(batch)) :
       /\ calls' = calls \cup {"translate_text"}
       /\ G_Apply(batch, results, "failed")
  /\ UNCHANGED <<runVars, fileVars, empty_filled, missing, stats, deepl_failed,
                 claude_failed, raised, g_missing, lang_counts>>

\* One batch whose translate_text call raises: translate_batch catches it and
\* returns [""] * len(texts) (lines 137-139), so the except of main (lines
\* 258-262) is never entered.
G_BatchRaise ==
  /\ script = "glossary" /\ pc = "batch"
  /\ LET batch == Slice(batch_data, i, batch_size) IN
       /\ calls' = calls \cup {"translate_text"}
       /\ G_Apply(batch, [k \in 1..Len(batch) |-> EMPTY], "failed_raised")
  /\ UNCHANGED <<runVars, fileVars, empty_filled, missing, stats, deepl_failed,
                 claude_failed, raised, g_missing, lang_counts>>

\* Lines 266-304: json.dump, then the summary, which only prints.
G_Save ==
  /\ script = "glossary" /\ pc = "save"
  /\ disk' = values
  /\ writes' = writes + 1
  /\ pc' = "done"
  /\ UNCHANGED <<runVars, file_exists, file0, backups, calls, values, loopVars>>

GlossaryNext ==
  \/ G_CheckKey \/ G_Connect \/ G_Load \/ G_Scan \/ G_Backup
  \/ G_Batch \/ G_BatchRaise \/ G_Save

Next == RemainingNext \/ GlossaryNext
Spec == Init /\ [][Next]_vars

\* ------------------------------------------- the filler and the scanners
\* Every row of at most eight cells whose target columns hold one of these.
FillStrs == {EMPTY, SPACE, EN, MIXED, KO_LAST, ABOVE}
RichRows ==
  {SubSeq(PREFIX \o cells, 1, w) :
     cells \in [1..Len(TARGET_COLS) -> FillStrs], w \in 0..(COL_ZH_HANT + 1)}
RichTables == {TableOf(<<row>>) : row \in RichRows}

\* A run of either script that has loaded one of the tables of RichTables
\* (and, for translate_remaining.py, backed it up) and is about to fill or scan.
FillInit ==
  /\ script \in {"remaining", "glossary"}
  /\ dry_run = FALSE
  /\ batch_size = BATCH_SIZE
  /\ pc = IF script = "remaining" THEN "phaseA" ELSE "scan"
  /\ file_exists = TRUE
  /\ file0 \in RichTables
  /\ disk = file0
  /\ backups = IF script = "remaining" THEN <<file0>> ELSE <<>>
  /\ writes = 0
  /\ calls = {"get_usage"}
  /\ values = file0
  /\ empty_filled = [col \in Range(FILL_COLS) |-> 0]
  /\ missing = [col \in TargetSet |-> <<>>]
  /\ stats = NoStats
  /\ col_pos = 1
  /\ i = 0
  /\ deepl_failed = <<>>
  /\ claude_failed = <<>>
  /\ trace = [cell \in Cells |-> <<>>]
  /\ raised = NoRaised
  /\ g_missing = <<>>
  /\ lang_counts = [col \in TargetSet |-> 0]
  /\ g_stats = [col \in TargetSet |-> [success |-> 0, failed |-> 0]]
  /\ batch_data = <<>>
  /\ failed_entries = <<>>

FillNext == R_PhaseA \/ R_PhaseB \/ G_Scan
FillSpec == FillInit /\ [][FillNext]_vars

\* ------------------------------------------------------------------ claims
ContainsHangul(text) == \E k \in DOMAIN text : text[k] \in HANGUL_FIRST..HANGUL_LAST
LastEvent(cell) == IF trace[cell] = <<>> THEN "none" ELSE trace[cell][Len(trace[cell])]
InCascade == script = "remaining" /\ pc \in {"deepl", "claude", "fallback"}
\* The cells whose content a step changes.
Rewritten(r, c) ==
  /\ r \in DOMAIN values /\ r \in DOMAIN values'
  /\ c < Len(values[r]) /\ c < Len(values'[r])
  /\ Cell(values'[r], c) # Cell(values[r], c)

\* C1: whenever a step of the cascade of translate_remaining.py (DeepL, Claude
\* or the English fallback) overwrites a cell of a target column, the value
\* written is not the empty string and holds no code point of U+AC00..U+D7AF,
\* whatever the services returned or raised.
C1_WrittenValueClean ==
  [][InCascade =>
       \A r \in DOMAIN values : \A c \in TargetSet :
         Rewritten(r, c) =>
           /\ Cell(values'[r], c) # <<>>
           /\ ~ContainsHangul(Cell(values'[r], c))]_vars

\* A run in which each of the three strategies has written a cell.
C1_Witness ==
  /\ script = "remaining"
  /\ \E a \in Cells : LastEvent(a) = "deepl_ok" /\ ~ContainsHangul(Cell(values[a[1]], a[2]))
  /\ \E b \in Cells : LastEvent(b) = "claude_ok"
  /\ \E c \in Cells : LastEvent(c) = "fallback_ok"

CascadePaths ==
  { <<>>,
    <<"deepl_ok">>,
    <<"deepl_fail">>,
    <<"deepl_fail", "claude_ok">>,
    <<"deepl_fail", "claude_fail">>,
    <<"deepl_fail", "claude_fail", "fallback_ok">>,
    <<"deepl_fail", "claude_fail", "failed">> }
TerminalEvents == {"deepl_ok", "claude_ok", "fallback_ok", "failed"}
WritingEvents == {"deepl_ok", "claude_ok", "fallback_ok"}
IsFlagged(cell) == \E k \in 1..Len(missing[cell[2]]) : missing[cell[2]][k][1] = cell[1]

\* C2: in translate_remaining.py the strategies applied to a cell form a prefix
\* of DeepL, Claude, English fallback that stops at the first success: Claude
\* only after DeepL failed on the cell, the fallback only after Claude failed
\* too, nothing after a success or a failure of the last strategy; only cells
\* the scan flagged are attempted, and the cascade writes a cell only in the
\* step that resolves it, so at most once.
C2_CascadeOrder ==
  /\ [](script = "remaining" =>
          \A cell \in Cells :
            /\ trace[cell] \in CascadePaths
            /\ trace[cell] # <<>> => IsFlagged(cell))
  /\ [][InCascade =>
          \A cell \in Cells :
            /\ Rewritten(cell[1], cell[2]) =>
                 /\ LastEvent(cell) \notin TerminalEvents
                 /\ \E e \in WritingEvents : trace'[cell] = Append(trace[cell], e)
            /\ LastEvent(cell) \in TerminalEvents => trace'[cell] = trace[cell]]_vars

\* A finished run with a cell resolved by Claude, one by the fallback and one
\* resolved by DeepL at once.
C2_Witness ==
  /\ script = "remaining" /\ pc = "done"
  /\ \E a \in Cells : trace[a] = <<"deepl_fail", "claude_ok">>
  /\ \E b \in Cells : trace[b] = <<"deepl_fail", "claude_fail", "fallback_ok">>
  /\ \E c \in Cells : trace[c] = <<"deepl_ok">>

\* Every cell the scan of the running script flagged has been through its
\* translation pass, and the fill pass leaves the table as it is.
PassesFinished ==
  IF script = "remaining"
    THEN /\ Fill(values) = values
         /\ \A cell \in Cells : IsFlagged(cell) => LastEvent(cell) \in TerminalEvents
    ELSE \A k \in 1..Len(g_missing) : \A n \in 1..Len(g_missing[k][2]) :
           trace[<<g_missing[k][1], g_missing[k][2][n][1]>>] # <<>>

\* C3: in a run of either script the backup (one file, a copy of the data file
\* as the run found it) exists before the in-memory table differs from the
\* loaded one and before the data file is written; the data file is written
\* at most once, as the last step of the run, with the table as it is after
\* the fill pass and after every flagged cell has been through its pass.
C3_BackupFirstSaveLast ==
  /\ Len(backups) <= 1
  /\ writes <= 1
  /\ (values # <<>> /\ values # file0) => backups = <<file0>>
  /\ (writes > 0 \/ disk # file0) => backups = <<file0>>
  /\ writes = 1 => (pc = "done" /\ disk = values /\ PassesFinished)

\* A finished run of translate_remaining.py in which the fill pass and the
\* cascade both changed the table that was then saved.
C3_Witness ==
  /\ script = "remaining" /\ writes = 1
  /\ Fill(file0) # file0
  /\ disk # Fill(file0)
  /\ backups = <<file0>>

DryRun == script = "glossary" /\ dry_run
NothingChanged ==
  /\ backups = <<>>
  /\ writes = 0
  /\ disk = file0
  /\ values \in {<<>>, file0}

\* C4 as stated: a --dry-run invocation of translate_missing_glossary.py makes
\* no external-service call, creates no backup, mutates no cell and does not
\* write the data file.
C4_DryRunNoExternalCall == DryRun => (calls = {} /\ NothingChanged)

\* C4, amended: a --dry-run invocation makes no translation call; the one
\* external-service call it makes is the DeepL usage query at startup. It
\* creates no backup, mutates no cell and does not write the data file.
C4_DryRunNoTranslationCall == DryRun => (calls \subseteq {"get_usage"} /\ NothingChanged)

\* A dry run that found entries to translate, reported them and returned.
C4_Witness == DryRun /\ pc = "done" /\ g_missing # <<>> /\ calls = {"get_usage"}

IsBlank(text) == \A k \in DOMAIN text : text[k] \in WhitespaceChars
HasCol(row, c) == c < Len(row)
\* The English value of a row as the file held it ("" when the row is short).
English0(r) == IF HasCol(file0[r], COL_ENGLISH) THEN Cell(file0[r], COL_ENGLISH) ELSE <<>>

\* C5: right after Phase A of translate_remaining.py the table differs from
\* the loaded one in exactly the cells of columns 4-7 that were blank (empty
\* or whitespace-only) or absent in a data row (index >= 2) whose English
\* cell is not blank: each holds that row's English value, the row having been
\* widened to reach it. No other cell changed, whatever it holds, Hangul
\* included, and filling the result again changes nothing. ("Non-empty" is
\* read as the code's is_empty reads it: neither empty nor whitespace-only.)
C5_FillerExact ==
  (script = "remaining" /\ pc = "phaseB") =>
    /\ DOMAIN values = DOMAIN file0
    /\ \A r \in DOMAIN file0 :
         LET old == file0[r]
             new == values[r]
             fills == r >= FIRST_DATA_ROW /\ ~IsBlank(English0(r))
         IN \A c \in 0..COL_ZH_HANT :
              IF fills /\ c \in Range(FILL_COLS) /\ (~HasCol(old, c) \/ IsBlank(Cell(old, c)))
                THEN HasCol(new, c) /\ Cell(new, c) = English0(r)
                ELSE IF HasCol(old, c)
                  THEN HasCol(new, c) /\ Cell(new, c) = Cell(old, c)
                  ELSE ~HasCol(new, c)
    /\ Fill(values) = values

\* A row with a whitespace-only cell, a Hangul cell, an empty cell and an
\* absent one, after the fill.
C5_Witness ==
  /\ script = "remaining" /\ pc = "phaseB"
  /\ file0[FIRST_DATA_ROW] = PREFIX \o <<EN, SPACE, KO_LAST, EMPTY>>
  /\ values[FIRST_DATA_ROW] = PREFIX \o <<EN, EN, KO_LAST, EN, EN>>

PosOf(col) == CHOOSE q \in 1..Len(TARGET_COLS) : TARGET_COLS[q] = col
\* The cascade has left column col behind.
ColumnDone(col) == pc \in {"save", "done"} \/ (InCascade /\ col_pos > PosOf(col))
\* The text the scan recorded for a flagged cell.
EntryText(cell) ==
  missing[cell[2]][CHOOSE k \in 1..Len(missing[cell[2]]) : missing[cell[2]][k][1] = cell[1]][2]
NumWithLast(col, event) ==
  Cardinality({r \in DOMAIN values : LastEvent(<<r, col>>) = event})

\* C6: in translate_remaining.py no cell of the English column is ever
\* resolved by the column fallback: once DeepL and Claude have both failed on
\* it, it is counted as failed and keeps its text. A cell of columns 4-7 the
\* fallback resolved holds the row's English value, which is not "" and has no
\* Hangul; one it did not resolve is counted as failed, keeps its text, and
\* the row's English value is "" or has Hangul.
C6_FallbackNotForEnglish ==
  script = "remaining" =>
    \A cell \in Cells :
      LET r == cell[1]
          c == cell[2]
          both_failed == Len(trace[cell]) >= 2 /\ trace[cell][2] = "claude_fail"
      IN /\ (ColumnDone(c) /\ both_failed) => LastEvent(cell) \in {"fallback_ok", "failed"}
         /\ c = COL_ENGLISH => LastEvent(cell) # "fallback_ok"
         /\ LastEvent(cell) = "fallback_ok" =>
              /\ Cell(values[r], c) = EngVal(values[r])
              /\ EngVal(values[r]) # <<>> /\ ~ContainsHangul(EngVal(values[r]))
         /\ LastEvent(cell) = "failed" =>
              /\ Cell(values[r], c) = EntryText(cell)
              /\ c = COL_ENGLISH \/ EngVal(values[r]) = <<>> \/ ContainsHangul(EngVal(values[r]))
         /\ stats[c].failed = NumWithLast(c, "failed")
         /\ stats[c].english_fallback = NumWithLast(c, "fallback_ok")

\* A finished run with a failed English cell, a cell the fallback resolved and
\* a failed cell of another column.
C6_Witness ==
  /\ script = "remaining" /\ pc = "done"
  /\ \E r \in DOMAIN values : LastEvent(<<r, COL_ENGLISH>>) = "failed"
  /\ \E a \in Cells : a[2] # COL_ENGLISH /\ LastEvent(a) = "fallback_ok"
  /\ \E b \in Cells : b[2] # COL_ENGLISH /\ LastEvent(b) = "failed"

\* C7: in translate_remaining.py, when the DeepL call and the Claude call of
\* the batches holding a flagged cell both raised and the row's English value
\* is "", the fallback step on that cell leaves the table as it is, marks the
\* cell failed and adds exactly one to the failed counter of its column (and
\* nothing to the other counters); a failed cell keeps the text the scan found
\* in it until the end of the run, and the saved file holds that text.
C7_BothRaiseNoEnglish ==
  /\ [][(InCascade /\ pc = "fallback") =>
          LET r == claude_failed[i + 1][1]
              cell == <<r, CurCol>>
          IN (r \in raised.deepl /\ r \in raised.claude /\ EngVal(values[r]) = <<>>) =>
               /\ values' = values
               /\ trace'[cell] = Append(trace[cell], "failed")
               /\ stats' = [stats EXCEPT ![CurCol].failed = @ + 1]]_vars
  /\ [](script = "remaining" =>
          \A cell \in Cells :
            LastEvent(cell) = "failed" =>
              /\ Cell(values[cell[1]], cell[2]) = EntryText(cell)
              /\ ContainsHangul(EntryText(cell))
              /\ writes = 1 => Cell(disk[cell[1]], cell[2]) = EntryText(cell)
              /\ English0(cell[1]) = <<>> => Cell(file0[cell[1]], cell[2]) = EntryText(cell))

\* The fallback loop right after it failed a cell whose two calls raised and
\* whose row has no English value.
C7_Witness ==
  /\ InCascade /\ pc = "fallback" /\ i >= 1
  /\ LET r == claude_failed[1][1] IN
       /\ r \in raised.deepl /\ r \in raised.claude
       /\ EngVal(values[r]) = <<>>
       /\ trace[<<r, CurCol>>] = <<"deepl_fail", "claude_fail", "failed">>
       /\ stats[CurCol].failed = 1
       /\ Cell(values[r], CurCol) = Cell(file0[r], CurCol)

\* The program keeps running: each of its steps is eventually taken (no step
\* of either script waits on anything but the reply or the failure of a call).
LiveSpec == Spec /\ WF_vars(Next)

BatchRows(batch) == {batch[k][1] : k \in 1..Len(batch)}
\* A step in which the DeepL (Claude) call of the current batch raised.
DeeplRaised == InCascade /\ pc = "deepl" /\ raised'.deepl # raised.deepl /\ raised'.deepl # {}
ClaudeRaised == InCascade /\ pc = "claude" /\ raised'.claude # raised.claude /\ raised'.claude # {}

\* C8: in translate_remaining.py a DeepL or Claude call that raises changes
\* no cell and no counter; the items of its batch, all of them and only them,
\* join the list the next step works on (Claude after DeepL, the fallback
\* after Claude) and the run goes on with the next batch or step. Once the
\* backup exists the run never aborts: it reaches the save, writes the file
\* once, and by then every flagged cell is resolved or failed.
C8_ExceptionsNeverAbort ==
  /\ [][/\ DeeplRaised =>
             LET batch == Slice(missing[CurCol], i, batch_size) IN
               /\ values' = values /\ stats' = stats
               /\ deepl_failed' = deepl_failed \o batch
               /\ raised'.deepl = raised.deepl \cup BatchRows(batch)
               /\ pc' \in {"deepl", "claude"}
        /\ ClaudeRaised =>
             LET batch == Slice(deepl_failed, i, CLAUDE_BATCH) IN
               /\ values' = values /\ stats' = stats
               /\ claude_failed' = claude_failed \o batch
               /\ raised'.claude = raised.claude \cup BatchRows(batch)
               /\ pc' \in {"claude", "fallback"}]_vars
  /\ []((script = "remaining" /\ backups # <<>>) =>
          /\ pc \notin {"crashed", "exit1"}
          /\ pc = "done" =>
               /\ writes = 1
               /\ \A cell \in Cells : IsFlagged(cell) => LastEvent(cell) \in TerminalEvents)
  /\ (script = "remaining" /\ backups # <<>>) ~> (pc = "done" /\ writes = 1)

\* The Claude step of a column in which one DeepL batch raised and another
\* one resolved its cell: the items of the raising batch are what is left.
C8_Witness ==
  /\ InCascade /\ pc = "claude"
  /\ raised.deepl # {}
  /\ BatchRows(deepl_failed) = raised.deepl
  /\ \E r \in DOMAIN values : trace[<<r, CurCol>>] = <<"deepl_ok">>

EnglishDone ==
  \A r \in DOMAIN values :
    IsFlagged(<<r, COL_ENGLISH>>) => LastEvent(<<r, COL_ENGLISH>>) \in TerminalEvents

\* C9: in translate_remaining.py the English column is finished (each of its
\* flagged cells resolved or failed) before the fallback looks at any cell of
\* columns 4-7, so a cell the fallback resolved holds the row's final English
\* value: free of Hangul and, where the English cell had been flagged, the
\* translation DeepL or Claude wrote there, not the text the scan found.
C9_EnglishResolvedFirst ==
  script = "remaining" =>
    /\ (InCascade /\ pc = "fallback" /\ CurCol # COL_ENGLISH) => EnglishDone
    /\ \A cell \in Cells :
         (cell[2] # COL_ENGLISH /\ LastEvent(cell) = "fallback_ok") =>
           LET eng == <<cell[1], COL_ENGLISH>> IN
             /\ EnglishDone
             /\ Cell(values[cell[1]], cell[2]) = Cell(values[cell[1]], COL_ENGLISH)
             /\ ~ContainsHangul(Cell(values[cell[1]], cell[2]))
             /\ IsFlagged(eng) =>
                  /\ LastEvent(eng) \in {"deepl_ok", "claude_ok"}
                  /\ Cell(values[cell[1]], cell[2]) # EntryText(eng)

\* A row whose English cell was translated and one of whose other cells then
\* fell back to that translation.
C9_Witness ==
  /\ script = "remaining"
  /\ \E cell \in Cells :
       /\ cell[2] # COL_ENGLISH /\ LastEvent(cell) = "fallback_ok"
       /\ LastEvent(<<cell[1], COL_ENGLISH>>) \in {"deepl_ok", "claude_ok"}

\* A data row with Hangul in the Korean column and "" in columns 3-7.
EmptyTargetsRow == PREFIX \o <<EMPTY, EMPTY, EMPTY, EMPTY, EMPTY>>
IsEmptyTargetsRow(r) == r >= FIRST_DATA_ROW /\ file0[r] = EmptyTargetsRow
\* The scan of either script has run on the loaded table.
R_Scanned == script = "remaining" /\ pc \in {"deepl", "earlysave"}
G_Scanned == script = "glossary" /\ pc \in {"backup", "done"} /\ values = file0 /\ values # <<>>
R_Flags(r, c) == \E k \in 1..Len(missing[c]) : missing[c][k][1] = r
G_Flags(r, c) ==
  \E k \in 1..Len(g_missing) :
    g_missing[k][1] = r /\ \E j \in 1..Len(g_missing[k][2]) : g_missing[k][2][j][1] = c

\* C10 as stated: on a row with Hangul in the Korean column and "" in columns
\* 3-7 the Filler changes nothing and the Scanner flags each of columns 3-7.
C10_EmptyRowFlagged ==
  \A r \in DOMAIN file0 :
    IsEmptyTargetsRow(r) =>
      /\ (script = "remaining" /\ pc = "phaseB") => values[r] = file0[r]
      /\ R_Scanned => \A c \in TargetSet : R_Flags(r, c)
      /\ G_Scanned => \A c \in TargetSet : G_Flags(r, c)

\* C10: on a row with Hangul in the Korean column and "" in columns 3-7 the
\* Filler changes nothing (the English value is empty) and the Scanner of
\* either script flags none of columns 3-7: an empty cell holds no Hangul.
C10_EmptyRowNotFlagged ==
  \A r \in DOMAIN file0 :
    IsEmptyTargetsRow(r) =>
      /\ (script = "remaining" /\ pc = "phaseB") => values[r] = file0[r]
      /\ R_Scanned => (values[r] = file0[r] /\ \A c \in TargetSet : ~R_Flags(r, c))
      /\ G_Scanned => \A c \in TargetSet : ~G_Flags(r, c)

\* translate_remaining.py has filled and scanned such a row and found nothing.
C10_Witness ==
  /\ R_Scanned /\ pc = "earlysave"
  /\ IsEmptyTargetsRow(FIRST_DATA_ROW)
  /\ values[FIRST_DATA_ROW] = EmptyTargetsRow

\* The item of the glossary run was counted as failed (its result was rejected,
\* or the call of its batch raised).
G_Failed(cell) == LastEvent(cell) \in {"failed", "failed_raised"}
G_Recorded(cell, text) ==
  \E k \in 1..Len(failed_entries) : failed_entries[k] = <<cell[1], cell[2], text>>

\* C11: in translate_missing_glossary.py a cell counted as a success holds a
\* result that is not "" and has no Hangul; a cell whose result was anything
\* else, or whose batch call raised, keeps the text the file held, is counted
\* as failed and is in failed_entries; the two counters of a column count
\* exactly those cells.
C11_GlossaryAcceptance ==
  script = "glossary" =>
    /\ \A cell \in Cells :
         /\ LastEvent(cell) = "success" =>
              /\ Cell(values[cell[1]], cell[2]) # <<>>
              /\ ~ContainsHangul(Cell(values[cell[1]], cell[2]))
         /\ G_Failed(cell) =>
              /\ Cell(values[cell[1]], cell[2]) = Cell(file0[cell[1]], cell[2])
              /\ G_Recorded(cell, Cell(file0[cell[1]], cell[2]))
    /\ \A c \in TargetSet :
         /\ g_stats[c].success = NumWithLast(c, "success")
         /\ g_stats[c].failed = NumWithLast(c, "failed") + NumWithLast(c, "failed_raised")

Total(col) ==
  stats[col].deepl + stats[col].claude + stats[col].english_fallback + stats[col].failed

\* C12: in translate_remaining.py each counter of a column counts exactly the
\* flagged cells that ended on its outcome, and once the cascade has left a
\* column (so also at the save and the summary) every cell the scan flagged
\* for it has ended on one of the four outcomes: deepl + claude +
\* english_fallback + failed equals the number of flagged cells, whatever the
\* services returned and whichever calls raised.
C12_CountersSumToFlagged ==
  script = "remaining" =>
    \A c \in TargetSet :
      /\ stats[c].deepl = NumWithLast(c, "deepl_ok")
      /\ stats[c].claude = NumWithLast(c, "claude_ok")
      /\ stats[c].english_fallback = NumWithLast(c, "fallback_ok")
      /\ stats[c].failed = NumWithLast(c, "failed")
      /\ Total(c) <= Len(missing[c])
      /\ ColumnDone(c) =>
           /\ Total(c) = Len(missing[c])
           /\ \A r \in DOMAIN values :
                IsFlagged(<<r, c>>) <=> LastEvent(<<r, c>>) \in TerminalEvents

\* A finished run in which a column with two flagged cells has one resolved by
\* Claude and one failed, and another column has a cell the fallback resolved.
C12_Witness ==
  /\ script = "remaining" /\ pc = "done" /\ writes = 1
  /\ \E c \in TargetSet :
       /\ Len(missing[c]) = 2 /\ stats[c].claude = 1 /\ stats[c].failed = 1
       /\ \E c2 \in TargetSet \ {c} : stats[c2].english_fallback = 1

====
